---- MODULE Spec2Model ----
(***************************************************************************)
(* Model of src-tauri/create_icon.py: the function create_minimal_ico()    *)
(* that assembles a 16x16, 32-bit ICO image, and the module-level script   *)
(* that writes the image to src-tauri/icons/icon.ico and prints a message. *)
(*                                                                         *)
(* Two specifications share the variables and the file-system actions:     *)
(*   Spec       several runs of the script against one destination path,   *)
(*              their open / write / close steps interleaved; the call of  *)
(*              create_minimal_ico() is one atomic step of a run.          *)
(*   SpecBuild  one interpreter running the script again and again, the    *)
(*              body of create_minimal_ico() executed statement by         *)
(*              statement (one step per pixel of the loop).                *)
(* Leaving the with block is two steps of a run: the write on the          *)
(* descriptor that flushes the buffer, then the close of the descriptor.   *)
(* The flush of any run may be rejected by the storage after k bytes, for  *)
(* every k short of the whole image.                                       *)
(***************************************************************************)
EXTENDS Integers, Sequences, FiniteSets, TLC

\* ---------------------------------------------------------------- bounds
\* Number of runs of the script that share the destination path (Spec).
NumRuns == 2
\* Number of successive runs of the script in one history (SpecBuild).
MaxCalls == 2
\* Prior files of length L-MaxPad .. L+MaxPad around the image length L.
MaxPad == 1

Runs == 1..NumRuns
\* The run whose call of create_minimal_ico() is stepped in SpecBuild.
MainRun == CHOOSE p \in Runs : \A q \in Runs : p <= q

VARIABLES
    dirExists,  \* the directory src-tauri/icons exists
    writable,   \* the process may open the destination for writing
    priorLonger,\* the destination held more bytes than the image when the
                \* latest open() truncated it
    file,       \* the destination file: [exists, data]
    pc,         \* pc[p]: the statement run p is at
    ico_data,   \* ico_data[p]: the module-level name ico_data of run p
    fd,         \* fd[p]: state of the file object f of run p
    flushed,    \* flushed[p]: "no" before the flush of run p, then "all" or
                \* "short": how much of the buffer the flush has written
    buf,        \* buf[p]: bytes held by the buffered writer of run p
    opens,      \* opens[p]: number of open() calls run p has made
    printed,    \* printed[p]: number of completion messages run p printed
    exitcode,   \* exitcode[p]: -1 while running, else the exit status
    error,      \* error[p]: the exception that ended run p, or "none"
    log,        \* log[p]: the steps run p has completed, in order
    lastWriter, \* the run whose bytes reached the file last (0: none since
                \* the file was last truncated)
    overlap,    \* some open() truncated the file between the flush and the
                \* close of another run
    frame,      \* locals of the executing call of create_minimal_ico()
    fpc,        \* statement the executing call is at ("none": no call)
    results,    \* the values the stepped calls have returned, in order
    calls       \* number of runs started by MainRun (SpecBuild)

vars == <<dirExists, writable, priorLonger, file, pc, ico_data, fd, flushed,
          buf, opens, printed, exitcode, error, log, lastWriter, overlap,
          frame, fpc, results, calls>>

fsVars    == <<dirExists, writable, priorLonger>>
histVars  == <<lastWriter, overlap>>
callVars  == <<frame, fpc>>

\* ------------------------------------------------------- struct.pack
RECURSIVE Pow256(_)
Pow256(n) == IF n = 0 THEN 1 ELSE 256 * Pow256(n - 1)

\* Standard sizes of the format characters under the '<' prefix.
FmtSize(c) == CASE c = "B" -> 1
                [] c = "H" -> 2
                [] c = "L" -> 4

\* Mutant of PackLE: most significant byte first ('>' instead of '<').
PackBE(v, w) == [i \in 1..w |-> (v \div Pow256(w - i)) % 256]

\* One integer v as w bytes, least significant byte first.
PackLE(v, w) == [i \in 1..w |-> (v \div Pow256(i - 1)) % 256]

\* struct.pack('<' + fmt, *vals): the fields in order, no padding.
RECURSIVE struct_pack(_, _)
struct_pack(fmt, vals) ==
    IF fmt = <<>> THEN <<>>
    ELSE PackLE(Head(vals), FmtSize(Head(fmt)))
         \o struct_pack(Tail(fmt), Tail(vals))

\* ------------------------------------------------ create_minimal_ico
\* A new call frame.  No local is bound yet; the placeholders are never
\* read, because every statement assigns a local before its first use.
NewFrame ==
    [ico_header |-> <<>>, width |-> 0, height |-> 0, colors |-> 0,
     reserved |-> 0, planes |-> 0, bits_per_pixel |-> 0,
     size_in_bytes |-> 0, offset |-> 0, ico_dir_entry |-> <<>>,
     dib_header |-> <<>>, pixel_data |-> <<>>, y |-> 0, x |-> 0,
     ico_data |-> <<>>]

\* line 7
PackHeader(f) ==
    [f EXCEPT !.ico_header = struct_pack(<<"H", "H", "H">>, <<0, 1, 1>>)]

\* Mutant of AssignParams: the size leaves out the 40-byte DIB header.
AssignParamsNoHeader(f) ==
    LET g == [f EXCEPT !.width = 16,
                       !.height = 16,
                       !.colors = 0,
                       !.reserved = 0,
                       !.planes = 1,
                       !.bits_per_pixel = 32]
    IN  [g EXCEPT !.size_in_bytes = g.width * g.height * 4,
                  !.offset = 22]

\* lines 10-17
AssignParams(f) ==
    LET g == [f EXCEPT !.width = 16,
                       !.height = 16,
                       !.colors = 0,
                       !.reserved = 0,
                       !.planes = 1,
                       !.bits_per_pixel = 32]
    IN  [g EXCEPT !.size_in_bytes = 40 + (g.width * g.height * 4),
                  !.offset = 22]

\* lines 19-21
PackDirEntry(f) ==
    [f EXCEPT !.ico_dir_entry =
        struct_pack(<<"B", "B", "B", "B", "H", "H", "L", "L">>,
                    <<f.width, f.height, f.colors, f.reserved,
                      f.planes, f.bits_per_pixel, f.size_in_bytes,
                      f.offset>>)]

\* Mutant of PackDib: the height is stored as it is, not doubled.
PackDibSingleHeight(f) ==
    [f EXCEPT !.dib_header =
        struct_pack(<<"L", "L", "L", "H", "H", "L", "L", "L", "L", "L", "L">>,
                    <<40, f.width, f.height, 1, f.bits_per_pixel, 0,
                      f.width * f.height * 4, 0, 0, 0, 0>>)]

\* lines 24-35
PackDib(f) ==
    [f EXCEPT !.dib_header =
        struct_pack(<<"L", "L", "L", "H", "H", "L", "L", "L", "L", "L", "L">>,
                    <<40, f.width, f.height * 2, 1, f.bits_per_pixel, 0,
                      f.width * f.height * 4, 0, 0, 0, 0>>)]

\* Mutant of PixelInit: pixel_data is a buffer shared by the calls and is
\* not emptied, so a call starts from the pixels of the call before it.
PixelInitShared(f) ==
    [f EXCEPT !.pixel_data =
                  IF results = <<>> THEN <<>>
                  ELSE SubSeq(results[Len(results)], 63,
                              Len(results[Len(results)])),
              !.y = 0]

\* line 39, and the range iterator of line 40 at its start
PixelInit(f) == [f EXCEPT !.pixel_data = <<>>, !.y = 0]

\* Mutant of RowMore: the row bound is off by one.
RowMoreInclusive(f) == f.y <= f.height

\* line 40: the outer loop has another row y to visit
RowMore(f) == f.y < f.height

\* line 41 entered for row y: the range iterator of the columns starts
RowStart(f) == [f EXCEPT !.x = 0]

\* line 41: the inner loop has another column x to visit
ColMore(f) == f.x < f.width

\* line 43, then the inner iterator advances to the next column
LoopBody(f) ==
    [f EXCEPT !.pixel_data = @ \o struct_pack(<<"B", "B", "B", "B">>,
                                              <<255, 0, 0, 255>>),
              !.x = @ + 1]

\* line 41 exhausted: the outer iterator advances to the next row
RowEnd(f) == [f EXCEPT !.y = @ + 1]

\* lines 41-43 for one row
RECURSIVE RunRow(_)
RunRow(f) == IF ColMore(f) THEN RunRow(LoopBody(f)) ELSE f

\* lines 40-43
RECURSIVE RunLoop(_)
RunLoop(f) ==
    IF RowMore(f) THEN RunLoop(RowEnd(RunRow(RowStart(f)))) ELSE f

\* Mutant of Combine: the DIB header is put before the directory entry.
CombineSwapped(f) ==
    [f EXCEPT !.ico_data =
        f.ico_header \o f.dib_header \o f.ico_dir_entry \o f.pixel_data]

\* line 46
Combine(f) ==
    [f EXCEPT !.ico_data =
        f.ico_header \o f.ico_dir_entry \o f.dib_header \o f.pixel_data]

\* lines 5-48, the whole call: the value returned at line 48
create_minimal_ico ==
    Combine(RunLoop(PixelInit(PackDib(PackDirEntry(AssignParams(
        PackHeader(NewFrame))))))).ico_data

\* ------------------------------------------------------ file system
Absent == [exists |-> FALSE, data |-> <<>>]

\* The bytes a prior file is filled with (none of them an image byte).
PriorBytes == {171}

PriorLens ==
    {0} \cup { n \in (Len(create_minimal_ico) - MaxPad)..
                     (Len(create_minimal_ico) + MaxPad) : n >= 0 }

PriorFiles ==
    {Absent} \cup
    { [exists |-> TRUE, data |-> [i \in 1..n |-> b]] :
          n \in PriorLens, b \in PriorBytes }

\* Lengths after which a rejected write of data may stop (a short write):
\* any number of bytes short of all of them.
PartialLens(data) == 0..(Len(data) - 1)

\* write(2) of data on a descriptor at offset at: the bytes replace what
\* the file holds from that offset on, a gap is filled with zero bytes,
\* and whatever lies beyond the written range stays.
WriteAt(old, at, data) ==
    LET gap  == [i \in 1..(at - Len(old)) |-> 0]
        head == IF at <= Len(old) THEN SubSeq(old, 1, at) ELSE old \o gap
        rest == SubSeq(old, at + Len(data) + 1, Len(old))
    IN  head \o data \o rest

\* Mutant of OpenTruncate: the file is opened without truncation ('r+b').
OpenKeep(old) == [exists |-> TRUE, data |-> old.data]

\* open(path, 'wb') on an existing directory: the file is created if it
\* is missing and truncated to length zero if it is there.
OpenTruncate(old) == [exists |-> TRUE, data |-> <<>>]

\* ------------------------------------------------------------ script
Init ==
    /\ results = <<>>
    /\ dirExists \in BOOLEAN
    /\ writable \in BOOLEAN
    /\ file \in PriorFiles
    /\ (~dirExists => file = Absent)
    /\ priorLonger = FALSE
    /\ pc = [p \in Runs |-> "build"]
    /\ ico_data = [p \in Runs |-> <<>>]
    /\ fd = [p \in Runs |-> "none"]
    /\ flushed = [p \in Runs |-> "no"]
    /\ buf = [p \in Runs |-> <<>>]
    /\ opens = [p \in Runs |-> 0]
    /\ printed = [p \in Runs |-> 0]
    /\ exitcode = [p \in Runs |-> -1]
    /\ error = [p \in Runs |-> "none"]
    /\ log = [p \in Runs |-> <<>>]
    /\ lastWriter = 0
    /\ overlap = FALSE
    /\ frame = NewFrame
    /\ fpc = "none"
    /\ calls = 1

\* An uncaught exception at the module level: traceback, exit status 1.
Raise(p, exc) ==
    /\ pc' = [pc EXCEPT ![p] = "failed"]
    /\ error' = [error EXCEPT ![p] = exc]
    /\ exitcode' = [exitcode EXCEPT ![p] = 1]

\* line 51, the call as one step
Build(p) ==
    /\ pc[p] = "build"
    /\ fpc = "none"
    /\ ico_data' = [ico_data EXCEPT ![p] = create_minimal_ico]
    /\ log' = [log EXCEPT ![p] = Append(@, "build")]
    /\ pc' = [pc EXCEPT ![p] = "open"]
    /\ UNCHANGED <<fsVars, file, fd, flushed, buf, opens, printed, exitcode,
                   error, histVars, callVars, results, calls>>

\* line 52, open() succeeds
OpenOk(p) ==
    /\ pc[p] = "open"
    /\ dirExists /\ writable
    /\ opens' = [opens EXCEPT ![p] = @ + 1]
    /\ file' = OpenTruncate(file)
    /\ fd' = [fd EXCEPT ![p] = "open"]
    /\ flushed' = [flushed EXCEPT ![p] = "no"]
    /\ buf' = [buf EXCEPT ![p] = <<>>]
    /\ log' = [log EXCEPT ![p] = Append(@, "open")]
    /\ pc' = [pc EXCEPT ![p] = "write"]
    /\ overlap' = (overlap \/ \E q \in Runs \ {p} :
                                  pc[q] = "close" /\ flushed[q] = "all")
    /\ priorLonger' = (Len(file.data) > Len(ico_data[p]))
    /\ lastWriter' = 0
    /\ UNCHANGED <<dirExists, writable, ico_data, printed, exitcode, error,
                   callVars, results, calls>>

\* Mutant of OpenNoDir: a failed open is tried once more before the
\* exception is let through.
OpenNoDirRetry(p) ==
    /\ pc[p] = "open"
    /\ ~dirExists
    /\ opens' = [opens EXCEPT ![p] = @ + 1]
    /\ IF opens[p] < 1
       THEN UNCHANGED <<pc, error, exitcode>>
       ELSE Raise(p, "FileNotFoundError")
    /\ UNCHANGED <<fsVars, file, ico_data, fd, flushed, buf, printed, log,
                   histVars, callVars, results, calls>>

\* line 52, open() raises FileNotFoundError: the directory is missing
OpenNoDir(p) ==
    /\ pc[p] = "open"
    /\ ~dirExists
    /\ opens' = [opens EXCEPT ![p] = @ + 1]
    /\ Raise(p, "FileNotFoundError")
    /\ UNCHANGED <<fsVars, file, ico_data, fd, flushed, buf, printed, log,
                   histVars, callVars, results, calls>>

\* line 52, open() raises PermissionError
OpenDenied(p) ==
    /\ pc[p] = "open"
    /\ dirExists /\ ~writable
    /\ opens' = [opens EXCEPT ![p] = @ + 1]
    /\ Raise(p, "PermissionError")
    /\ UNCHANGED <<fsVars, file, ico_data, fd, flushed, buf, printed, log,
                   histVars, callVars, results, calls>>

Open(p) == OpenOk(p) \/ OpenNoDir(p) \/ OpenDenied(p)

\* line 53: f.write(ico_data) on the buffered writer.  The image is
\* smaller than the writer's buffer, so the bytes stay in the buffer.
Write(p) ==
    /\ pc[p] = "write"
    /\ fd[p] = "open"
    /\ buf' = [buf EXCEPT ![p] = @ \o ico_data[p]]
    /\ log' = [log EXCEPT ![p] = Append(@, "write")]
    /\ pc' = [pc EXCEPT ![p] = "flush"]
    /\ UNCHANGED <<fsVars, file, ico_data, fd, flushed, opens, printed,
                   exitcode, error, histVars, callVars, results, calls>>

\* Mutant of FlushOk: the descriptor is in append mode ('ab'), the
\* flushed bytes go to the end of the file.
FlushOkAppend(p) ==
    /\ pc[p] = "flush"
    /\ fd[p] = "open"
    /\ file' = [file EXCEPT !.data = @ \o buf[p]]
    /\ flushed' = [flushed EXCEPT ![p] = "all"]
    /\ buf' = [buf EXCEPT ![p] = <<>>]
    /\ lastWriter' = p
    /\ pc' = [pc EXCEPT ![p] = "close"]
    /\ UNCHANGED <<fsVars, ico_data, fd, opens, printed, exitcode, error,
                   log, overlap, callVars, results, calls>>

\* end of the with block, first half: f.close() flushes the buffer with
\* a write on the descriptor, whose offset is still 0 after open(..., 'wb')
FlushOk(p) ==
    /\ pc[p] = "flush"
    /\ fd[p] = "open"
    /\ file' = [file EXCEPT !.data = WriteAt(@, 0, buf[p])]
    /\ flushed' = [flushed EXCEPT ![p] = "all"]
    /\ buf' = [buf EXCEPT ![p] = <<>>]
    /\ lastWriter' = p
    /\ pc' = [pc EXCEPT ![p] = "close"]
    /\ UNCHANGED <<fsVars, ico_data, fd, opens, printed, exitcode, error,
                   log, overlap, callVars, results, calls>>

\* What a write of the buffer of run p that stops after k bytes leaves:
\* the file, and whether any byte of the run reached it.
ShortWrite(p, k) == <<WriteAt(file.data, 0, SubSeq(buf[p], 1, k)), k > 0>>

\* end of the with block, first half, the storage rejects the write: the
\* flush stops after k bytes, for any k short of the whole buffer, and its
\* OSError is held until the descriptor is closed.  The rest of the buffer
\* is never written: the writer is closed without another flush.
FlushFail(p) ==
    /\ pc[p] = "flush"
    /\ fd[p] = "open"
    /\ \E w \in { ShortWrite(p, k) : k \in PartialLens(buf[p]) } :
          /\ file' = [file EXCEPT !.data = w[1]]
          /\ lastWriter' = IF w[2] THEN p ELSE lastWriter
    /\ flushed' = [flushed EXCEPT ![p] = "short"]
    /\ buf' = [buf EXCEPT ![p] = <<>>]
    /\ pc' = [pc EXCEPT ![p] = "close"]
    /\ UNCHANGED <<fsVars, ico_data, fd, opens, printed, exitcode, error,
                   log, overlap, callVars, results, calls>>

\* end of the with block, second half: the descriptor is closed after a
\* complete flush
CloseOk(p) ==
    /\ pc[p] = "close"
    /\ fd[p] = "open"
    /\ flushed[p] = "all"
    /\ fd' = [fd EXCEPT ![p] = "closed"]
    /\ log' = [log EXCEPT ![p] = Append(@, "close")]
    /\ pc' = [pc EXCEPT ![p] = "print"]
    /\ UNCHANGED <<fsVars, file, ico_data, flushed, buf, opens, printed,
                   exitcode, error, histVars, callVars, results, calls>>

\* Mutant of CloseRaise: the OSError of the flush is caught and the script
\* goes on to line 55.
CloseRaiseSwallowed(p) ==
    /\ pc[p] = "close"
    /\ fd[p] = "open"
    /\ flushed[p] = "short"
    /\ fd' = [fd EXCEPT ![p] = "closed"]
    /\ pc' = [pc EXCEPT ![p] = "print"]
    /\ UNCHANGED <<fsVars, file, ico_data, flushed, buf, opens, printed,
                   log, histVars, callVars, results, calls, error,
                   exitcode>>

\* end of the with block, second half: the descriptor is closed after a
\* rejected flush and the OSError of the flush propagates
CloseRaise(p) ==
    /\ pc[p] = "close"
    /\ fd[p] = "open"
    /\ flushed[p] = "short"
    /\ fd' = [fd EXCEPT ![p] = "closed"]
    /\ Raise(p, "OSError")
    /\ UNCHANGED <<fsVars, file, ico_data, flushed, buf, opens, printed,
                   log, histVars, callVars, results, calls>>

\* line 55, then the interpreter exits with status 0
PrintDone(p) ==
    /\ pc[p] = "print"
    /\ printed' = [printed EXCEPT ![p] = @ + 1]
    /\ log' = [log EXCEPT ![p] = Append(@, "print")]
    /\ pc' = [pc EXCEPT ![p] = "done"]
    /\ exitcode' = [exitcode EXCEPT ![p] = 0]
    /\ UNCHANGED <<fsVars, file, ico_data, fd, flushed, buf, opens, error,
                   histVars, callVars, results, calls>>

Next ==
    \E p \in Runs :
        \/ Build(p)
        \/ OpenOk(p)
        \/ OpenNoDir(p)
        \/ OpenDenied(p)
        \/ Write(p)
        \/ FlushOk(p)
        \/ FlushFail(p)
        \/ CloseOk(p)
        \/ CloseRaise(p)
        \/ PrintDone(p)

Spec == Init /\ [][Next]_vars

\* ------------------------------- the call of line 51, step by step
\* Everything of a run except the name ico_data and the step log.
runVars == <<fsVars, file, fd, flushed, buf, opens, printed, exitcode, error,
             histVars, calls>>

\* line 51: the call is entered with a frame of its own
CallEnter ==
    /\ pc[MainRun] = "build"
    /\ fpc = "none"
    /\ frame' = NewFrame
    /\ fpc' = "header"
    /\ UNCHANGED <<runVars, pc, ico_data, log, results>>

\* One straight-line statement: at label from, the frame becomes new.
Stmt(from, new, to) ==
    /\ fpc = from
    /\ frame' = new
    /\ fpc' = to
    /\ UNCHANGED <<runVars, pc, ico_data, log, results>>

StmtHeader    == Stmt("header", PackHeader(frame), "params")
StmtParams    == Stmt("params", AssignParams(frame), "dir_entry")
StmtDirEntry  == Stmt("dir_entry", PackDirEntry(frame), "dib")
StmtDib       == Stmt("dib", PackDib(frame), "pixel_init")
StmtPixelInit == Stmt("pixel_init", PixelInit(frame), "outer")

\* line 40 yields the next row
OuterNext == RowMore(frame) /\ Stmt("outer", RowStart(frame), "inner")
\* line 40 is exhausted
OuterExit == ~RowMore(frame) /\ Stmt("outer", frame, "combine")
\* line 41 yields the next column and line 43 runs
InnerNext == ColMore(frame) /\ Stmt("inner", LoopBody(frame), "inner")
\* line 41 is exhausted
InnerExit == ~ColMore(frame) /\ Stmt("inner", RowEnd(frame), "outer")

StmtCombine   == Stmt("combine", Combine(frame), "return")

\* line 48, and the assignment of line 51
Return ==
    /\ fpc = "return"
    /\ fpc' = "none"
    /\ ico_data' = [ico_data EXCEPT ![MainRun] = frame.ico_data]
    /\ results' = Append(results, frame.ico_data)
    /\ log' = [log EXCEPT ![MainRun] = Append(@, "build")]
    /\ pc' = [pc EXCEPT ![MainRun] = "open"]
    /\ UNCHANGED <<runVars, frame>>

\* The script is started again after the previous run has ended: a new
\* process, nothing of the previous one survives but the file system.
Rerun ==
    /\ pc[MainRun] \in {"done", "failed"}
    /\ calls < MaxCalls
    /\ calls' = calls + 1
    /\ pc' = [pc EXCEPT ![MainRun] = "build"]
    /\ ico_data' = [ico_data EXCEPT ![MainRun] = <<>>]
    /\ fd' = [fd EXCEPT ![MainRun] = "none"]
    /\ flushed' = [flushed EXCEPT ![MainRun] = "no"]
    /\ buf' = [buf EXCEPT ![MainRun] = <<>>]
    /\ opens' = [opens EXCEPT ![MainRun] = 0]
    /\ printed' = [printed EXCEPT ![MainRun] = 0]
    /\ exitcode' = [exitcode EXCEPT ![MainRun] = -1]
    /\ error' = [error EXCEPT ![MainRun] = "none"]
    /\ log' = [log EXCEPT ![MainRun] = <<>>]
    /\ UNCHANGED <<fsVars, file, histVars, callVars, results>>

NextBuild ==
    \/ CallEnter
    \/ StmtHeader
    \/ StmtParams
    \/ StmtDirEntry
    \/ StmtDib
    \/ StmtPixelInit
    \/ OuterNext
    \/ OuterExit
    \/ InnerNext
    \/ InnerExit
    \/ StmtCombine
    \/ Return
    \/ OpenOk(MainRun)
    \/ OpenNoDir(MainRun)
    \/ OpenDenied(MainRun)
    \/ Write(MainRun)
    \/ FlushOk(MainRun)
    \/ FlushFail(MainRun)
    \/ CloseOk(MainRun)
    \/ CloseRaise(MainRun)
    \/ PrintDone(MainRun)
    \/ Rerun

SpecBuild == Init /\ [][NextBuild]_vars

\* ======================================================== properties
\* Reading of a byte string: the inverse direction of struct.pack,
\* written from the file format and not from PackLE.
RECURSIVE UnpackLE(_)
UnpackLE(bytes) ==
    IF bytes = <<>> THEN 0 ELSE Head(bytes) + 256 * UnpackLE(Tail(bytes))

RECURSIVE struct_unpack(_, _)
struct_unpack(fmt, bytes) ==
    IF fmt = <<>> THEN <<>>
    ELSE <<UnpackLE(SubSeq(bytes, 1, FmtSize(Head(fmt))))>>
         \o struct_unpack(Tail(fmt),
                          SubSeq(bytes, FmtSize(Head(fmt)) + 1, Len(bytes)))

\* Python's data[a:b] on a byte string.
Slice(data, a, b) == SubSeq(data, a + 1, b)

DirEntryFmt == <<"B", "B", "B", "B", "H", "H", "L", "L">>
DibFmt      == <<"L", "L", "L", "H", "H", "L", "L", "L", "L", "L", "L">>
StepOrder   == <<"build", "open", "write", "close", "print">>

IsPrefix(s, t) == Len(s) <= Len(t) /\ s = SubSeq(t, 1, Len(s))

\* The call has assembled its result and its locals are still alive.
Assembled == fpc = "return"

\* C1: every call of create_minimal_ico() returns 1086 = 6 + 16 + 40 +
\* 1024 bytes, the concatenation FileHeader, DirectoryEntry, BitmapHeader,
\* PixelBlock in that order, the records starting at offsets 0, 6, 22, 62.
C1_Layout ==
    /\ \A i \in DOMAIN results : Len(results[i]) = 1086
    /\ Assembled =>
          /\ Len(frame.ico_data) = 6 + 16 + 40 + 1024
          /\ Slice(frame.ico_data, 0, 6) = frame.ico_header
          /\ Slice(frame.ico_data, 6, 22) = frame.ico_dir_entry
          /\ Slice(frame.ico_data, 22, 62) = frame.dib_header
          /\ Slice(frame.ico_data, 62, 1086) = frame.pixel_data

C1_Witness == Assembled /\ Len(results) >= 1 /\ Len(frame.ico_data) = 1086

\* C2: bytes [6:22] of the result decode (little-endian, widths
\* 1,1,1,1,2,2,4,4) to (16,16,0,0,1,32,1064,22); the stored size is the
\* actual length of BitmapHeader plus PixelBlock, and the stored offset is
\* the actual length of FileHeader plus DirectoryEntry, the index at which
\* the BitmapHeader starts in the output.
C2_DirEntry ==
    Assembled =>
        LET e == struct_unpack(DirEntryFmt, Slice(frame.ico_data, 6, 22))
        IN  /\ e = <<16, 16, 0, 0, 1, 32, 1064, 22>>
            /\ e[7] = Len(frame.dib_header) + Len(frame.pixel_data)
            /\ e[8] = Len(frame.ico_header) + Len(frame.ico_dir_entry)
            /\ Slice(frame.ico_data, e[8], e[8] + Len(frame.dib_header))
                   = frame.dib_header
            /\ e[8] + e[7] = Len(frame.ico_data)

C2_Witness ==
    /\ Assembled
    /\ Len(frame.dib_header) + Len(frame.pixel_data) = 1064
    /\ frame.size_in_bytes = 1064

\* C3: bytes [22:62] of the result decode (little-endian, widths
\* 4,4,4,2,2,4,4,4,4,4,4) to (40,16,32,1,32,0,1024,0,0,0,0); the stored
\* height is twice the DirectoryEntry height, the stored bitsPerPixel is
\* the DirectoryEntry bitsPerPixel, and the stored imageSize is the actual
\* length of the PixelBlock.
C3_BitmapHeader ==
    Assembled =>
        LET e == struct_unpack(DirEntryFmt, Slice(frame.ico_data, 6, 22))
            d == struct_unpack(DibFmt, Slice(frame.ico_data, 22, 62))
        IN  /\ d = <<40, 16, 32, 1, 32, 0, 1024, 0, 0, 0, 0>>
            /\ d[3] = 2 * e[2]
            /\ d[5] = e[6]
            /\ d[7] = Len(frame.pixel_data)

C3_Witness ==
    /\ Assembled
    /\ Len(frame.pixel_data) = 1024
    /\ Slice(frame.ico_data, 30, 34) = <<32, 0, 0, 0>>

\* C4: the pixel loop visits 16 rows and 16 columns in each row, appends
\* one 4-byte sample per (row, column) pair and then stops; bytes
\* [62:1086] of the result are exactly 256 groups (0xFF,0x00,0x00,0xFF).
C4_PixelLoop ==
    /\ fpc = "outer" =>
          /\ frame.y <= 16
          /\ Len(frame.pixel_data) = 4 * (frame.y * 16)
    /\ fpc = "inner" =>
          /\ frame.y < 16 /\ frame.x <= 16
          /\ Len(frame.pixel_data) = 4 * (frame.y * 16 + frame.x)
    /\ (fpc \in {"outer", "inner"} /\ frame.pixel_data # <<>>) =>
          Slice(frame.pixel_data, Len(frame.pixel_data) - 4,
                Len(frame.pixel_data)) = <<255, 0, 0, 255>>
    /\ fpc \in {"combine", "return"} =>
          /\ frame.y = 16
          /\ Len(frame.pixel_data) = 4 * 256
          /\ \A g \in 0..255 :
                Slice(frame.pixel_data, 4 * g, 4 * g + 4) = <<255, 0, 0, 255>>
    /\ \A i \in DOMAIN results : Len(results[i]) - 62 = 4 * 256
    /\ (fpc = "none" /\ pc[MainRun] = "open") =>
          \A g \in 0..255 :
              Slice(ico_data[MainRun], 62 + 4 * g, 62 + 4 * g + 4)
                  = <<255, 0, 0, 255>>

C4_Witness ==
    /\ fpc = "combine"
    /\ frame.y = 16
    /\ Len(frame.pixel_data) = 1024
    /\ Len(results) >= 1

\* C5: the first six bytes of the result are 0,0,1,0,1,0: the 16-bit
\* fields reserved=0, imageType=1, imageCount=1, low byte first.
C5_FileHeader ==
    \A p \in Runs :
        pc[p] # "build" =>
            /\ Slice(ico_data[p], 0, 6) = <<0, 0, 1, 0, 1, 0>>
            /\ struct_unpack(<<"H", "H", "H">>, Slice(ico_data[p], 0, 6))
                   = <<0, 1, 1>>

C5_Witness ==
    \E p \in Runs : pc[p] = "open" /\ Len(ico_data[p]) >= 6

\* C6: create_minimal_ico() keeps no state between calls: any two calls,
\* whatever happened between them (a file write included), return the
\* same bytes.
C6_Pure ==
    \A i \in DOMAIN results : results[i] = results[1]

C6_Witness ==
    /\ Len(results) >= 2
    /\ lastWriter = MainRun
    /\ file.exists
    /\ file.data = results[1]

\* C7: when the open-and-write step of a run that has the destination
\* to itself completes without error, the destination holds exactly the
\* 1086 bytes create_minimal_ico() returned to that run, whatever the
\* destination was before (absent, empty, shorter, of equal length, longer,
\* or the partial image a rejected flush left): nothing of the prior
\* content survives.
C7_Overwrite ==
    (pc[MainRun] \in {"print", "done"}
        \/ (pc[MainRun] = "close" /\ flushed[MainRun] = "all")) =>
        /\ file.exists
        /\ file.data = ico_data[MainRun]
        /\ file.data = create_minimal_ico
        /\ Len(file.data) = 1086

C7_Witness ==
    /\ pc[MainRun] = "print"
    /\ priorLonger
    /\ fd[MainRun] = "closed"
    /\ file.data = ico_data[MainRun]

\* C8: when the parent directory is missing the run fails with an I/O
\* error at the open step, no file appears at the destination (the file
\* system is as before) and open is attempted exactly once: no retry.
C8_MissingDir ==
    ~dirExists =>
        /\ file = Absent
        /\ ~file.exists
        /\ \A p \in Runs :
              /\ opens[p] <= 1
              /\ pc[p] \in {"build", "open", "failed"}
              /\ opens[p] = 1 =>
                    /\ pc[p] = "failed"
                    /\ error[p] = "FileNotFoundError"
                    /\ exitcode[p] # 0
                    /\ fd[p] = "none"
                    /\ log[p] = <<"build">>
              /\ pc[p] = "failed" => opens[p] = 1

C8_Witness ==
    /\ ~dirExists
    /\ \A p \in Runs : pc[p] = "failed" /\ opens[p] = 1

\* C9: when several runs write the same destination with their open
\* (truncate), write and close steps interleaved in any order, another
\* run's truncation between a run's write and its close included, then
\* once all have finished without error the file is the bytes of the run
\* that wrote last: a complete 1086-byte image, not a mixture or a
\* truncated one.  On the way there the file is the image of the run
\* whose complete write was the last thing done to it.
C9_LastWriterWins ==
    /\ (\A p \in Runs : pc[p] = "done") =>
          /\ lastWriter \in Runs
          /\ file.exists
          /\ file.data = ico_data[lastWriter]
          /\ Len(file.data) = 1086
    /\ \A p \in Runs :
          (lastWriter = p /\ flushed[p] = "all") =>
              file.exists /\ file.data = ico_data[p]

C9_Witness ==
    /\ \A p \in Runs : pc[p] = "done"
    /\ overlap

\* C10: a run does build, open, write, close, print in that order; the
\* message is printed at most once and only after the file is completely
\* written and closed; a failed open or write ends the run with a nonzero
\* exit status and without the message.
C10_Order ==
    \A p \in Runs :
        /\ IsPrefix(log[p], StepOrder)
        /\ printed[p] <= 1
        /\ printed[p] = 1 =>
              /\ log[p] = StepOrder
              /\ fd[p] = "closed"
              /\ buf[p] = <<>>
              /\ flushed[p] = "all"
              /\ Len(ico_data[p]) = 1086
              /\ error[p] = "none"
        /\ pc[p] = "failed" =>
              /\ exitcode[p] # 0
              /\ error[p] # "none"
              /\ printed[p] = 0
        /\ pc[p] = "done" => exitcode[p] = 0 /\ printed[p] = 1
        /\ pc[p] \notin {"done", "failed"} => exitcode[p] = -1 /\ printed[p] = 0

C10_Witness ==
    \E p \in Runs : \E q \in Runs \ {MainRun} :
        /\ pc[p] = "done" /\ printed[p] = 1
        /\ pc[q] = "failed" /\ error[q] = "OSError"
        /\ flushed[q] = "short" /\ fd[q] = "closed"
        /\ Len(file.data) = 500

====
